---- MODULE Spec2Model ----
(***************************************************************************)
(* Model of src/src/server.js: the loan-data reporting API.  One inbound   *)
(* request is followed from route matching through the per-table queries   *)
(* to the response.  Strings whose characters matter to the code           *)
(* (toLowerCase, parseInt, LIKE, moment().format, new Date) are sequences  *)
(* of one-character strings.                                               *)
(***************************************************************************)
EXTENDS Integers, Sequences, FiniteSets, TLC

VARIABLES db, pc, req, handler, i, issued, allResults, res, proc

vars == <<db, pc, req, handler, i, issued, allResults, res, proc>>

(***************************************************************************)
(* Values                                                                  *)
(***************************************************************************)
\* SQL NULL in a nullable DATE / DATETIME column (stored values are >= 1).
NULL == 0 - 1

\* A query-string parameter that was not sent (JavaScript undefined).
Absent == <<"undefined">>

\* JavaScript numbers: a finite number n, an infinity (inf is its sign) or NaN.
NaN == [nan |-> TRUE, inf |-> 0, n |-> 0]

Num(n) == [nan |-> FALSE, inf |-> 0, n |-> n]

Infinity(sign) == [nan |-> FALSE, inf |-> sign, n |-> 0]

\* JavaScript truthiness of a number: NaN and 0 are falsy.
Truthy(v) == ~v.nan /\ (v.inf # 0 \/ v.n # 0)

\* a + b
Plus(a, b) ==
  IF a.nan \/ b.nan THEN NaN
  ELSE IF a.inf # 0 /\ b.inf # 0 THEN (IF a.inf = b.inf THEN a ELSE NaN)
  ELSE IF a.inf # 0 THEN a
  ELSE IF b.inf # 0 THEN b
  ELSE Num(a.n + b.n)

\* a - b
Minus(a, b) == Plus(a, [b EXCEPT !.inf = 0 - b.inf, !.n = 0 - b.n])

UpperChars == <<"A","B","C","D","E","F","G","H","I","J","K","L","M",
                "N","O","P","Q","R","S","T","U","V","W","X","Y","Z">>

LowerChars == <<"a","b","c","d","e","f","g","h","i","j","k","l","m",
                "n","o","p","q","r","s","t","u","v","w","x","y","z">>

LowerChar(c) ==
  IF \E k \in 1..Len(UpperChars) : UpperChars[k] = c
  THEN LowerChars[CHOOSE k \in 1..Len(UpperChars) : UpperChars[k] = c]
  ELSE c

\* String.prototype.toLowerCase
ToLowerCase(s) == [k \in 1..Len(s) |-> LowerChar(s[k])]

Digits == <<"0","1","2","3","4","5","6","7","8","9">>

IsDigit(c) == \E k \in 1..Len(Digits) : Digits[k] = c

DigitVal(c) == (CHOOSE k \in 1..Len(Digits) : Digits[k] = c) - 1

DigitChar(n) == Digits[n + 1]

RECURSIVE DigitsPrefixVal(_, _, _)
\* Value of the longest run of decimal digits of s starting at position k,
\* with acc the value read so far.
DigitsPrefixVal(s, k, acc) ==
  IF k > Len(s) \/ ~IsDigit(s[k]) THEN acc
  ELSE DigitsPrefixVal(s, k + 1, acc * 10 + DigitVal(s[k]))

\* parseInt(s) for a string: optional sign, then the leading decimal digits;
\* NaN when there is no digit.  parseInt(undefined) is NaN.
ParseInt(s) ==
  IF s = Absent \/ s = <<>> THEN NaN
  ELSE LET neg   == s[1] = "-"
           start == IF s[1] = "-" \/ s[1] = "+" THEN 2 ELSE 1
       IN IF start > Len(s) \/ ~IsDigit(s[start]) THEN NaN
          ELSE LET v == DigitsPrefixVal(s, start, 0)
               IN Num(IF neg THEN 0 - v ELSE v)

\* A column value that is NULL in the store (JavaScript null in the row).
RawNull == <<"null">>

RECURSIVE DigitsEnd(_, _)
\* The first position at or after k of s that holds no decimal digit.
DigitsEnd(s, k) == IF k > Len(s) \/ ~IsDigit(s[k]) THEN k ELSE DigitsEnd(s, k + 1)

cInfinity == <<"I","n","f","i","n","i","t","y">>

cMinusInfinity == <<"-">> \o cInfinity

\* parseFloat(s), in hundredths: optional sign, then "Infinity" or digits,
\* optionally a point and digits (the first two are kept); NaN when no number
\* starts the string.  parseFloat(null) reads the text "null" and is NaN.
ParseFloat(s) ==
  IF s = RawNull \/ s = Absent \/ s = <<>> THEN NaN
  ELSE LET neg     == s[1] = "-"
           start   == IF s[1] = "-" \/ s[1] = "+" THEN 2 ELSE 1
           isInf   == Len(s) >= start + 7 /\ SubSeq(s, start, start + 7) = cInfinity
           intEnd  == DigitsEnd(s, start)
           hasInt  == intEnd > start
           hasFrac == intEnd <= Len(s) /\ s[intEnd] = "." /\ DigitsEnd(s, intEnd + 1) > intEnd + 1
           fracEnd == IF hasFrac THEN DigitsEnd(s, intEnd + 1) ELSE intEnd
           d1      == IF hasFrac THEN DigitVal(s[intEnd + 1]) ELSE 0
           d2      == IF hasFrac /\ fracEnd > intEnd + 2 THEN DigitVal(s[intEnd + 2]) ELSE 0
           v       == DigitsPrefixVal(s, start, 0) * 100 + d1 * 10 + d2
       IN IF isInf THEN Infinity(IF neg THEN 0 - 1 ELSE 1)
          ELSE IF ~hasInt /\ ~hasFrac THEN NaN
          ELSE Num(IF neg THEN 0 - v ELSE v)

\* An integer JavaScript number on the hundredths scale of ParseFloat.
InHundredths(v) == [v EXCEPT !.n = v.n * 100]

\* v || 0
OrZero(v) == IF Truthy(v) THEN v ELSE Num(0)

\* parseInt(x) || 0, in hundredths.
IntField(x) == OrZero(InHundredths(ParseInt(x)))

\* parseFloat(x) || 0, in hundredths.
FloatField(x) == OrZero(ParseFloat(x))

\* x || '' for a string column.
StringField(x) == IF x = RawNull THEN <<>> ELSE x

\* needle occurs in hay as a contiguous run (SQL: hay LIKE '%needle%').
IsSubstring(needle, hay) ==
  \E k \in 0..(Len(hay) - Len(needle)) :
    \A j \in 1..Len(needle) : hay[k + j] = needle[j]

(***************************************************************************)
(* Dates.  A stored load_date d >= 1 is day d of one fixed month; a stored *)
(* processed_at p >= 1 is second p of one fixed minute.                    *)
(***************************************************************************)
InvalidDate == <<"I","n","v","a","l","i","d"," ","d","a","t","e">>

\* moment(load_date).format('YYYY-MM-DD'); moment(null) is an invalid moment.
FormatDate(d) ==
  IF d = NULL THEN InvalidDate
  ELSE <<"2","0","2","5","-","0","8","-", DigitChar(d \div 10), DigitChar(d % 10)>>

\* row.processed_at ? moment(row.processed_at).format('YYYY-MM-DD HH:mm:ss') : ''
FormatProcessedAt(p) ==
  IF p = NULL THEN <<>>
  ELSE <<"2","0","2","5","-","0","8","-","1","0"," ","0","0",":","0","0",":",
         DigitChar(p \div 10), DigitChar(p % 10)>>

\* The date a 'YYYY-MM-DD' string denotes, as a day count (year, month, day
\* fields read from their digit positions).
DayNumber(s) ==
  LET y == DigitsPrefixVal(SubSeq(s, 1, 4), 1, 0)
      m == DigitsPrefixVal(SubSeq(s, 6, 7), 1, 0)
      d == DigitsPrefixVal(SubSeq(s, 9, 10), 1, 0)
  IN (y * 12 + m) * 31 + d

IsDateString(s) ==
  /\ Len(s) = 10
  /\ \A k \in {1, 2, 3, 4, 6, 7, 9, 10} : IsDigit(s[k])
  /\ s[5] = "-" /\ s[8] = "-"

\* new Date(s) as a number: NaN for a string that is no date.
JsDate(s) == IF IsDateString(s) THEN Num(DayNumber(s)) ELSE NaN

\* A 'YYYY-MM-DD' string bound to a DATE comparison in SQL: back to the stored
\* day of the fixed month.
SqlDate(s) == DigitsPrefixVal(SubSeq(s, 9, 10), 1, 0)

(***************************************************************************)
(* The store: the two loan tables, filled by the external ETL.             *)
(***************************************************************************)
Nano7D == <<"N","a","n","o"," ","7","D">>

Nano14D == <<"N","a","n","o"," ","1","4","D">>

Nano21D == <<"N","a","n","o"," ","2","1","D">>

Nano30D == <<"N","a","n","o"," ","3","0","D">>

cAirtel == <<"A","i","r","t","e","l">>

cairtel == <<"a","i","r","t","e","l">>

cMTN == <<"M","T","N">>

cmtn == <<"m","t","n">>

cboth == <<"b","o","t","h">>

TableNames == {"airtel_loan_data", "MTN_loan_data"}

LoadDates == {NULL, 1, 9}

\* CURDATE() of the store.
Today == CHOOSE d \in LoadDates : \A e \in LoadDates : e <= d

ProcessedAts == {1, 2}

TelcoColumn == {cAirtel, cMTN}

LoanTypeColumn == {Nano7D}

DenomColumn == {<<"1","0","0">>}

\* The numeric columns of a loan table besides denom (server.js 200-206).
MetricColumns ==
  {"gross_lent", "sfee_lent", "lending_txns", "late_fees_charged",
   "principal_recovered", "sfee_recovered", "late_fees_recovered", "recovery_txns",
   "interest_fees_charged", "interest_fees_recovered", "setup_fees_charged",
   "setup_fees_recovered", "daily_fees_charged", "daily_fees_recovered",
   "qualified_base", "overall_actives_daily", "overall_actives_wtd",
   "overall_actives_mtd", "overall_actives_ytd"}

\* The rest of a row where the handlers' statements do not look.
RowRest ==
  [c \in MetricColumns |-> <<"0">>]
    @@ [country |-> <<"Z","M">>, file_source |-> <<"e","t","l">>]

\* The most rows the two tables hold together.
MaxRows == 2

RowUniverse ==
  { key @@ RowRest :
      key \in [load_date : LoadDates, loan_type : LoanTypeColumn, denom : DenomColumn,
               processed_at : ProcessedAts, telco : TelcoColumn] }

RECURSIVE SubsetsUpTo(_, _)
\* The subsets of S with at most n elements.
SubsetsUpTo(S, n) ==
  IF n = 0 THEN {{}}
  ELSE LET smaller == SubsetsUpTo(S, n - 1)
       IN smaller \cup { T \cup {x} : T \in smaller, x \in S }

TaggedRows == TableNames \X RowUniverse

Stores ==
  { [t \in TableNames |-> { p[2] : p \in { q \in S : q[1] = t } }] :
      S \in SubsetsUpTo(TaggedRows, MaxRows) }

(***************************************************************************)
(* What the store answers to the SELECT of the two loan-data handlers      *)
(* (server.js 198-218 and 314-334).  w is the assembled WHERE clause with  *)
(* its bound parameters.                                                   *)
(***************************************************************************)
\* t2.load_date = t1.load_date AND t2.loan_type = t1.loan_type AND
\* t2.denom = t1.denom; a comparison with NULL is never true.
SameKey(x, r) ==
  /\ x.load_date # NULL /\ r.load_date # NULL /\ x.load_date = r.load_date
  /\ x.loan_type # RawNull /\ r.loan_type # RawNull /\ x.loan_type = r.loan_type
  /\ x.denom # RawNull /\ r.denom # RawNull /\ x.denom = r.denom

SetMax(S) == CHOOSE m \in S : \A e \in S : e <= m

\* Faulty variant of MaxProcessedAt: the maximum taken over every loan table.
MaxProcessedAtAllTables(rows, r) ==
  LET all    == UNION { db[t] : t \in TableNames }
      stamps == { x.processed_at : x \in { y \in all : SameKey(y, r) } } \ {NULL}
  IN IF stamps = {} THEN NULL ELSE SetMax(stamps)

\* SELECT MAX(t2.processed_at) FROM table t2 WHERE <same key as r>:
\* NULL when no row qualifies or every qualifying stamp is NULL.
MaxProcessedAt(rows, r) ==
  LET stamps == { x.processed_at : x \in { y \in rows : SameKey(y, r) } } \ {NULL}
  IN IF stamps = {} THEN NULL ELSE SetMax(stamps)

\* t1.processed_at = (SELECT MAX(t2.processed_at) ...)
LatestSnapshot(rows, r) ==
  /\ r.processed_at # NULL
  /\ MaxProcessedAt(rows, r) # NULL
  /\ r.processed_at = MaxProcessedAt(rows, r)

\* load_date BETWEEN ? AND ?   or   load_date >= DATE_SUB(CURDATE(), INTERVAL ? DAY)
DatePredicate(w, r) ==
  /\ r.load_date # NULL
  /\ IF w.between
     THEN SqlDate(w.start_date) <= r.load_date /\ r.load_date <= SqlDate(w.end_date)
     ELSE r.load_date >= Today - w.daysInt

\* loan_type LIKE ?  with the parameter '%' + pattern + '%'
LikePredicate(w, r) == w.like = Absent \/ IsSubstring(w.like, r.loan_type)

\* (telco = 'Airtel' OR telco = 'airtel')  /  (telco = 'MTN' OR telco = 'mtn')
TelcoPredicate(w, r) ==
  CASE w.telcoFilter = "airtel" -> r.telco = cAirtel \/ r.telco = cairtel
    [] w.telcoFilter = "mtn"    -> r.telco = cMTN \/ r.telco = cmtn
    [] OTHER                    -> TRUE

WherePredicate(w, r) ==
  DatePredicate(w, r) /\ LikePredicate(w, r) /\ TelcoPredicate(w, r)

\* Faulty variant of SelectedRows: the subquery repeating the outer predicates,
\* so that the maximum is taken among the rows the request matches.
SelectedRowsLatestAmongMatching(rows, w) ==
  LET matching == { r \in rows : WherePredicate(w, r) }
  IN { r \in matching : LatestSnapshot(matching, r) }

\* The rows of the table the SELECT keeps, before ORDER BY and LIMIT.
SelectedRows(rows, w) ==
  { r \in rows : WherePredicate(w, r) /\ LatestSnapshot(rows, r) }

Alphabet == <<" ","0","1","2","3","4","5","6","7","8","9">> \o LowerChars

CharRank(c) ==
  LET l == LowerChar(c)
  IN CHOOSE k \in 1..Len(Alphabet) : Alphabet[k] = l

RECURSIVE StrLess(_, _)
\* a sorts strictly before b in the column's (case-insensitive) collation.
StrLess(a, b) ==
  IF b = <<>> THEN FALSE
  ELSE IF a = <<>> THEN TRUE
  ELSE IF CharRank(Head(a)) # CharRank(Head(b)) THEN CharRank(Head(a)) < CharRank(Head(b))
  ELSE StrLess(Tail(a), Tail(b))

\* x may come before y under ORDER BY load_date DESC [, loan_type].
MayPrecede(x, y, byLoanType) ==
  \/ x.load_date > y.load_date
  \/ /\ x.load_date = y.load_date
     /\ byLoanType => ~StrLess(y.loan_type, x.loan_type)

\* Every order in which the store may return the set S under the ORDER BY: rows
\* that compare equal come in any order.
Orderings(S, byLoanType) ==
  { f \in [1..Cardinality(S) -> S] :
      /\ \A a, b \in 1..Cardinality(S) : a # b => f[a] # f[b]
      /\ \A a, b \in 1..Cardinality(S) : a < b => MayPrecede(f[a], f[b], byLoanType) }

Min(a, b) == IF a <= b THEN a ELSE b

\* LIMIT ? with a NaN or negative parameter is a syntax error.
LimitAccepted(limit) == ~limit.nan /\ limit.n >= 0

\* Faulty variant of QueryResults: the statement without its LIMIT.
QueryResultsUnlimited(rows, w, limit, byLoanType) ==
  Orderings(SelectedRows(rows, w), byLoanType)

\* The possible result sets of the SELECT against a table holding rows.
QueryResults(rows, w, limit, byLoanType) ==
  { SubSeq(f, 1, Min(limit.n, Len(f))) :
      f \in Orderings(SelectedRows(rows, w), byLoanType) }

(***************************************************************************)
(* convertToDashboardFormat and the merge sort of the handlers.            *)
(***************************************************************************)
\* The derived field of the earlier copy of the converter kept at the end of the
\* file (server.js 757): principal and service fee only.
GrossRecoveredTwoComponents(row) ==
  Plus(FloatField(row.principal_recovered), FloatField(row.sfee_recovered))

\* server.js 108-113.
GrossRecovered(row) ==
  Plus(Plus(Plus(Plus(Plus(FloatField(row.principal_recovered),
                           FloatField(row.sfee_recovered)),
                      FloatField(row.late_fees_recovered)),
                 FloatField(row.setup_fees_recovered)),
            FloatField(row.interest_fees_recovered)),
       FloatField(row.daily_fees_recovered))

\* Faulty variant of PrincipalLent: a negative difference raised to 0.
PrincipalLentClamped(row) ==
  LET d == Minus(FloatField(row.gross_lent), FloatField(row.sfee_lent))
  IN IF ~d.nan /\ (d.inf < 0 \/ (d.inf = 0 /\ d.n < 0)) THEN Num(0) ELSE d

\* server.js 84.
PrincipalLent(row) ==
  Minus(FloatField(row.gross_lent), FloatField(row.sfee_lent))

\* server.js 81-82, 95-96: the transaction counts go through parseFloat.
TxnCount(x) == FloatField(x)

\* One element of rows.map(...) (server.js 59-124); numbers are in hundredths.
ConvertRow(row) ==
  [date                    |-> FormatDate(row.load_date),
   telco                   |-> StringField(row.telco),
   country                 |-> StringField(row.country),
   loan_type               |-> StringField(row.loan_type),
   denom                   |-> IntField(row.denom),
   qualified_base          |-> IntField(row.qualified_base),
   overall_actives_daily   |-> IntField(row.overall_actives_daily),
   overall_actives_wtd     |-> FloatField(row.overall_actives_wtd),
   overall_actives_mtd     |-> IntField(row.overall_actives_mtd),
   overall_actives_ytd     |-> IntField(row.overall_actives_ytd),
   lending_transactions    |-> TxnCount(row.lending_txns),
   lending_txns            |-> TxnCount(row.lending_txns),
   gross_lent              |-> FloatField(row.gross_lent),
   principal_lent          |-> PrincipalLent(row),
   service_fee_lent        |-> FloatField(row.sfee_lent),
   sfee_lent               |-> FloatField(row.sfee_lent),
   late_fees_charged       |-> FloatField(row.late_fees_charged),
   setup_fees_charged      |-> FloatField(row.setup_fees_charged),
   interest_fees_charged   |-> FloatField(row.interest_fees_charged),
   daily_fees_charged      |-> FloatField(row.daily_fees_charged),
   recovery_transactions   |-> TxnCount(row.recovery_txns),
   recovery_txns           |-> TxnCount(row.recovery_txns),
   principal_recovered     |-> FloatField(row.principal_recovered),
   service_fee_recovered   |-> FloatField(row.sfee_recovered),
   sfee_recovered          |-> FloatField(row.sfee_recovered),
   late_fees_recovered     |-> FloatField(row.late_fees_recovered),
   setup_fees_recovered    |-> FloatField(row.setup_fees_recovered),
   interest_fees_recovered |-> FloatField(row.interest_fees_recovered),
   daily_fees_recovered    |-> FloatField(row.daily_fees_recovered),
   gross_recovered         |-> GrossRecovered(row),
   unique_users            |-> IntField(row.overall_actives_daily),
   overall_unique_users    |-> IntField(row.overall_actives_ytd),
   fx_rate                 |-> Num(100),
   processed_at            |-> FormatProcessedAt(row.processed_at),
   file_source             |-> StringField(row.file_source)]

convertToDashboardFormat(rows) == [k \in 1..Len(rows) |-> ConvertRow(rows[k])]

\* Faulty variant of DateComparator: (a, b) => new Date(a.date) - new Date(b.date)
DateComparatorAscending(a, b) ==
  IF JsDate(a.date).nan \/ JsDate(b.date).nan THEN NaN
  ELSE Num(JsDate(a.date).n - JsDate(b.date).n)

\* (a, b) => new Date(b.date) - new Date(a.date)
DateComparator(a, b) ==
  IF JsDate(a.date).nan \/ JsDate(b.date).nan THEN NaN
  ELSE Num(JsDate(b.date).n - JsDate(a.date).n)

RECURSIVE InsertSorted(_, _)
\* x placed behind every element of s that the comparator does not put after it.
InsertSorted(s, x) ==
  IF s = <<>> THEN <<x>>
  ELSE IF DateComparator(Head(s), x).n <= 0
       THEN <<Head(s)>> \o InsertSorted(Tail(s), x)
       ELSE <<x>> \o s

RECURSIVE StableSort(_)
StableSort(s) ==
  IF s = <<>> THEN <<>>
  ELSE InsertSorted(StableSort(SubSeq(s, 1, Len(s) - 1)), s[Len(s)])

Arrangements(s) ==
  { [k \in 1..Len(s) |-> s[f[k]]] :
      f \in { g \in [1..Len(s) -> 1..Len(s)] :
                \A a, b \in 1..Len(s) : a # b => g[a] # g[b] } }

\* allResults.sort(comparator): a stable sort when the comparator is a
\* consistent order; with a NaN comparison the order is implementation-defined.
SortOutcomes(s) ==
  IF \A k \in 1..Len(s) : ~JsDate(s[k].date).nan
  THEN {StableSort(s)}
  ELSE Arrangements(s)

(***************************************************************************)
(* Routing: Express tries the routes in the order they were registered.    *)
(***************************************************************************)
Lit(text) == [param |-> FALSE, text |-> text]

Param(name) == [param |-> TRUE, text |-> name]

\* app.get(...) calls of server.js 137, 252, 369, 430 in registration order.
Routes ==
  << [pattern |-> <<Lit("loan-data")>>,                    handler |-> "loan-data"],
     [pattern |-> <<Lit("loan-data"), Param("loanType")>>, handler |-> "loan-data/:loanType"],
     [pattern |-> <<Lit("loan-data"), Lit("summary")>>,    handler |-> "loan-data/summary"],
     [pattern |-> <<Lit("npl-data")>>,                     handler |-> "npl-data"] >>

RouteMatches(route, path) ==
  /\ Len(route.pattern) = Len(path)
  /\ \A k \in 1..Len(path) : route.pattern[k].param \/ route.pattern[k].text = path[k]

\* The handler of the first registered route the path matches.
RouteOf(path) ==
  LET hits == { k \in 1..Len(Routes) : RouteMatches(Routes[k], path) }
  IN IF hits = {} THEN "none"
     ELSE Routes[CHOOSE k \in hits : \A j \in hits : k <= j].handler

(***************************************************************************)
(* The handlers' synchronous parts.                                        *)
(***************************************************************************)
\* const { x = d } = req.query : the default applies to undefined only.
OrDefault(v, d) == IF v = Absent THEN d ELSE v

\* JavaScript truthiness of a string or undefined.
StrTruthy(v) == v # Absent /\ v # <<>>

\* Faulty variant of SelectTables: the comparison without toLowerCase().
SelectTablesCaseSensitive(telco) ==
  IF telco = cairtel THEN <<"airtel_loan_data">>
  ELSE IF telco = cmtn THEN <<"MTN_loan_data">>
  ELSE IF telco = cboth THEN <<"airtel_loan_data", "MTN_loan_data">>
  ELSE <<>>

\* server.js 149-158 and 277-286.
SelectTables(telco) ==
  IF ToLowerCase(telco) = cairtel THEN <<"airtel_loan_data">>
  ELSE IF ToLowerCase(telco) = cmtn THEN <<"MTN_loan_data">>
  ELSE IF ToLowerCase(telco) = cboth THEN <<"airtel_loan_data", "MTN_loan_data">>
  ELSE <<>>

\* server.js 373-379.
SelectTablesSummary(telco) ==
  (IF ToLowerCase(telco) = cairtel \/ ToLowerCase(telco) = cboth
   THEN <<"airtel_loan_data">> ELSE <<>>)
  \o (IF ToLowerCase(telco) = cmtn \/ ToLowerCase(telco) = cboth
      THEN <<"MTN_loan_data">> ELSE <<>>)

\* const loanTypeMap = { '7': ..., '14': ..., '21': ..., '30': ... }
loanTypeMap ==
  ("7" :> Nano7D) @@ ("14" :> Nano14D) @@ ("21" :> Nano21D) @@ ("30" :> Nano30D)

\* Properties every object literal inherits from Object.prototype.
ObjectPrototypeKeys ==
  {"constructor", "toString", "valueOf", "hasOwnProperty", "isPrototypeOf",
   "propertyIsEnumerable", "toLocaleString", "__proto__"}

\* loanTypeMap[loanType]: an own property, else an inherited one (a function or
\* object, rendered here as the text a template literal gives it), else undefined.
LookupLoanType(loanType) ==
  IF loanType \in DOMAIN loanTypeMap
  THEN [truthy |-> TRUE, text |-> loanTypeMap[loanType]]
  ELSE IF loanType \in ObjectPrototypeKeys
       THEN [truthy |-> TRUE, text |-> <<"[inherited ", loanType, "]">>]
       ELSE [truthy |-> FALSE, text |-> Absent]

DefaultTelco == cboth

DefaultDays == <<"7">>

DefaultDaysSummary == <<"3","0">>

DefaultLimitLoanData == <<"1","0","0","0">>

DefaultLimitLoanType == <<"5","0","0">>

\* parseInt(days) || 7
DaysInt(days) == IF Truthy(ParseInt(days)) THEN ParseInt(days).n ELSE 7

TelcoFilter(telco) ==
  IF ToLowerCase(telco) = cairtel THEN "airtel"
  ELSE IF ToLowerCase(telco) = cmtn THEN "mtn"
  ELSE "none"

\* The WHERE clause and parameters of /api/loan-data (server.js 164-192).
WhereLoanData(r) ==
  [between     |-> StrTruthy(r.start_date) /\ StrTruthy(r.end_date),
   start_date  |-> r.start_date,
   end_date    |-> r.end_date,
   daysInt     |-> DaysInt(OrDefault(r.days, DefaultDays)),
   like        |-> IF StrTruthy(r.loan_type) THEN r.loan_type ELSE Absent,
   telcoFilter |-> TelcoFilter(OrDefault(r.telco, DefaultTelco))]

\* The WHERE clause and parameters of /api/loan-data/:loanType (server.js 290-311).
WhereLoanType(r) ==
  [between     |-> StrTruthy(r.start_date) /\ StrTruthy(r.end_date),
   start_date  |-> r.start_date,
   end_date    |-> r.end_date,
   daysInt     |-> DaysInt(OrDefault(r.days, DefaultDays)),
   like        |-> LookupLoanType(r.path[2]).text,
   telcoFilter |-> TelcoFilter(OrDefault(r.telco, DefaultTelco))]

(***************************************************************************)
(* Requests the dashboard may send.                                        *)
(***************************************************************************)
cVodafone == <<"v","o","d","a","f","o","n","e">>

TelcoInputs ==
  {Absent, cairtel, cAirtel, <<"A","I","R","T","E","L">>, cmtn, cMTN,
   cboth, <<"B","o","t","h">>, cVodafone, <<>>}

LoanTypeSegments == {"7", "14", "21", "30", "summary", "99", "constructor"}

LoanDataPath == <<"loan-data">>

LoanTypePath(segment) == <<"loan-data", segment>>

Request(path, telco, days, limit) ==
  [path |-> path, telco |-> telco, days |-> days, limit |-> limit,
   start_date |-> Absent, end_date |-> Absent, loan_type |-> Absent]

Requests ==
  \* every telco spelling, on both data endpoints
  { Request(p, t, Absent, Absent) :
      p \in {LoanDataPath, LoanTypePath("7")}, t \in TelcoInputs }
  \cup
  \* every path segment, with and without a telco the service does not know
  { Request(LoanTypePath(g), t, Absent, Absent) :
      g \in LoanTypeSegments, t \in {Absent, cVodafone} }
  \cup
  \* windows and limits
  { Request(p, t, d, l) :
      p \in {LoanDataPath, LoanTypePath("7")}, t \in {Absent, cairtel, cmtn},
      d \in {Absent, <<"9">>}, l \in {Absent, <<"1">>, <<"x">>} }
  \cup
  \* an explicit date range, a loan-type filter
  { [Request(LoanDataPath, t, Absent, Absent)
       EXCEPT !.start_date = FormatDate(1), !.end_date = FormatDate(e)] :
      t \in {Absent, cairtel}, e \in {1, 9} }
  \cup
  { [Request(LoanDataPath, Absent, <<"9">>, Absent) EXCEPT !.loan_type = f] :
      f \in {<<"7","D">>, <<"1","4">>} }
  \cup
  \* days values that are no positive number
  { Request(p, Absent, d, Absent) :
      p \in {LoanDataPath, LoanTypePath("7")},
      d \in {<<"0">>, <<"-","3">>, <<"a","b","c">>} }

(***************************************************************************)
(* State                                                                   *)
(***************************************************************************)
NoReq == [path |-> <<>>]

NoRes == [status |-> 0, body |-> [pending |-> TRUE]]

\* No request is being handled.
Idle ==
  /\ pc = "idle"
  /\ req = NoReq
  /\ handler = "none"
  /\ i = 0
  /\ issued = <<>>
  /\ allResults = <<>>
  /\ res = NoRes

\* The process: where startServer stands, what became of the startup
\* connection, whether SIGTERM has arrived, and the exit status once exited.
Process(phase, connected, failed) ==
  [phase |-> phase, connected |-> connected, held |-> 0, released |-> FALSE,
   failed |-> failed, listened |-> FALSE, sigterm |-> "none", exitCode |-> NULL]

\* The module is evaluated, startServer() is not yet called (server.js 1-691).
Loaded == Process("loaded", FALSE, FALSE)

\* The process after a successful start: connection tested, server listening.
Started ==
  [Process("listening", TRUE, FALSE) EXCEPT !.released = TRUE, !.listened = TRUE]

\* The server accepts and handles requests.
Listening == proc.phase = "listening"

Init == db \in Stores /\ Idle /\ proc = Started

\* pool.query(query, queryParams): the statement leaves for the store.
Issue(table, where, limit, byLoanType) ==
  [table |-> table, where |-> where, limit |-> limit, byLoanType |-> byLoanType,
   state |-> "pending", rows |-> <<>>]

\* The tables the running handler loops over.
Tables ==
  IF handler = "loan-data/summary"
  THEN SelectTablesSummary(OrDefault(req.telco, DefaultTelco))
  ELSE SelectTables(OrDefault(req.telco, DefaultTelco))

\* res.json of /api/loan-data (server.js 233-243).
LoanDataBody(r, data) ==
  [data |-> data, count |-> Len(data),
   filters |-> [loan_type |-> r.loan_type, telco |-> OrDefault(r.telco, DefaultTelco),
                days |-> ParseInt(OrDefault(r.days, DefaultDays)),
                start_date |-> r.start_date, end_date |-> r.end_date]]

\* res.json of /api/loan-data/:loanType (server.js 349-360).
LoanTypeBody(r, data) ==
  [data |-> data, loan_type |-> LookupLoanType(r.path[2]).text, count |-> Len(data),
   filters |-> [loan_type |-> LookupLoanType(r.path[2]).text,
                telco |-> OrDefault(r.telco, DefaultTelco),
                days |-> ParseInt(OrDefault(r.days, DefaultDays)),
                start_date |-> r.start_date, end_date |-> r.end_date]]

\* res.json of /api/loan-data/summary (server.js 418-421).
SummaryBody(r, summary) ==
  [summary |-> summary,
   filters |-> [telco |-> OrDefault(r.telco, DefaultTelco),
                days |-> ParseInt(OrDefault(r.days, DefaultDaysSummary))]]

\* Faulty variant of LoanDataStart: without the tables.length === 0 check, as
\* in the loan-type handler.
LoanDataStartUnchecked(r) ==
  LET tables == SelectTables(OrDefault(r.telco, DefaultTelco))
  IN IF Len(tables) = 0
     THEN /\ res' = [status |-> 200, body |-> LoanDataBody(r, <<>>)]
          /\ pc' = "responded"
          /\ i' = 0
          /\ issued' = <<>>
     ELSE /\ issued' = <<Issue(tables[1], WhereLoanData(r),
                               ParseInt(OrDefault(r.limit, DefaultLimitLoanData)), TRUE)>>
          /\ i' = 1
          /\ pc' = "awaiting"
          /\ res' = NoRes

\* GET /api/loan-data up to its first await (server.js 137-225).
LoanDataStart(r) ==
  LET tables == SelectTables(OrDefault(r.telco, DefaultTelco))
  IN IF Len(tables) = 0
     THEN /\ res' = [status |-> 400, body |-> [error |-> "Invalid telco parameter"]]
          /\ pc' = "responded"
          /\ i' = 0
          /\ issued' = <<>>
     ELSE /\ issued' = <<Issue(tables[1], WhereLoanData(r),
                               ParseInt(OrDefault(r.limit, DefaultLimitLoanData)), TRUE)>>
          /\ i' = 1
          /\ pc' = "awaiting"
          /\ res' = NoRes

\* Faulty variant of LoanTypeStart: the queries of all selected tables are
\* started together (Promise.all over the tables) instead of one per loop turn.
LoanTypeStartParallel(r) ==
  LET tables == SelectTables(OrDefault(r.telco, DefaultTelco))
  IN IF ~LookupLoanType(r.path[2]).truthy
     THEN /\ res' = [status |-> 400, body |-> [error |-> "Invalid loan type"]]
          /\ pc' = "responded"
          /\ i' = 0
          /\ issued' = <<>>
     ELSE /\ issued' = [k \in 1..Len(tables) |->
                          Issue(tables[k], WhereLoanType(r),
                                ParseInt(OrDefault(r.limit, DefaultLimitLoanType)), FALSE)]
          /\ i' = Len(tables)
          /\ pc' = IF Len(tables) = 0 THEN "responded" ELSE "awaiting"
          /\ res' = IF Len(tables) = 0
                    THEN [status |-> 200, body |-> LoanTypeBody(r, <<>>)]
                    ELSE NoRes

\* GET /api/loan-data/:loanType up to its first await (server.js 252-341).
LoanTypeStart(r) ==
  LET tables == SelectTables(OrDefault(r.telco, DefaultTelco))
  IN IF ~LookupLoanType(r.path[2]).truthy
     THEN /\ res' = [status |-> 400, body |-> [error |-> "Invalid loan type"]]
          /\ pc' = "responded"
          /\ i' = 0
          /\ issued' = <<>>
     ELSE IF Len(tables) = 0
     THEN /\ res' = [status |-> 200, body |-> LoanTypeBody(r, <<>>)]
          /\ pc' = "responded"
          /\ i' = 0
          /\ issued' = <<>>
     ELSE /\ issued' = <<Issue(tables[1], WhereLoanType(r),
                               ParseInt(OrDefault(r.limit, DefaultLimitLoanType)), FALSE)>>
          /\ i' = 1
          /\ pc' = "awaiting"
          /\ res' = NoRes

\* The bound parameter of the summary statement: parseInt(days).
WhereSummary(r) == [days |-> ParseInt(OrDefault(r.days, DefaultDaysSummary))]

\* GET /api/loan-data/summary up to its first await (server.js 369-403).
SummaryStart(r) ==
  LET tables == SelectTablesSummary(OrDefault(r.telco, DefaultTelco))
  IN IF Len(tables) = 0
     THEN /\ res' = [status |-> 200, body |-> SummaryBody(r, <<>>)]
          /\ pc' = "responded"
          /\ i' = 0
          /\ issued' = <<>>
     ELSE /\ issued' = <<Issue(tables[1], WhereSummary(r), Num(0), FALSE)>>
          /\ i' = 1
          /\ pc' = "awaiting"
          /\ res' = NoRes

\* A request arrives and the matched handler runs to its first await or to
\* its response.
(***************************************************************************)
(* GET /api/npl-data (server.js 430-515).  Balances are whole amounts,      *)
(* percentages are in hundredths of a percent; NULL is the SQL NULL.        *)
(***************************************************************************)
NplOutstanding == "airtel_npl_outstanding_balance_net_summary"

NplRecovered == "airtel_npl_net_recovered_value_summary"

NplUnrecovered == "airtel_npl_unrecovered_percentage_summary"

NplTableNames == {NplOutstanding, NplRecovered, NplUnrecovered}

NplLoanTypes ==
  {"7 Days Loan", "14 Days Loan", "21 Days Loan", "30 Days Loan", "Grand Total",
   "60 Days Loan"}

ReportDates == {1, 2}

OutstandingRows ==
  [loan_type : NplLoanTypes, report_date : ReportDates, total_balance : {0, 100},
   within_tenure : {40}]

RecoveredRows ==
  [loan_type : {"7 Days Loan", "Grand Total"}, report_date : ReportDates,
   total_balance : {50, 70}]

UnrecoveredRows ==
  [loan_type : {"7 Days Loan"}, report_date : ReportDates, total_balance : {3000, 3500}]

MaxNplRows == 3

NplTaggedRows ==
  ({NplOutstanding} \X OutstandingRows) \cup ({NplRecovered} \X RecoveredRows)
    \cup ({NplUnrecovered} \X UnrecoveredRows)

NplStores ==
  { [t \in NplTableNames |-> { p[2] : p \in { q \in S : q[1] = t } }] :
      S \in SubsetsUpTo(NplTaggedRows, MaxNplRows) }

\* The row a LEFT JOIN supplies when no row matches: every column NULL.
NullRow == [loan_type |-> "", report_date |-> NULL, total_balance |-> NULL]

\* COALESCE(a, b)
Coalesce(a, b) == IF a = NULL THEN b ELSE a

SqlPlus(a, b) == IF a = NULL \/ b = NULL THEN NULL ELSE a + b

SqlMinus(a, b) == IF a = NULL \/ b = NULL THEN NULL ELSE a - b

\* ROUND(a / b * 100, 2) in hundredths: NULL when an operand is NULL, and NULL
\* when b is 0 (a SELECT dividing by zero yields NULL in MySQL).
Percentage(a, b) ==
  IF a = NULL \/ b = NULL \/ b = 0 THEN NULL
  ELSE (2 * a * 10000 + b) \div (2 * b)

\* WHERE o.report_date = (SELECT MAX(report_date) FROM ...outstanding...)
LatestOutstanding(store) ==
  { x \in store[NplOutstanding] :
      \A y \in store[NplOutstanding] : y.report_date <= x.report_date }

\* LEFT JOIN ... r ON o.loan_type = r.loan_type AND DATE(o.report_date) = DATE(r.report_date)
RecoveredMatches(store, x) ==
  LET hits == { r \in store[NplRecovered] :
                  r.loan_type = x.loan_type /\ r.report_date = x.report_date }
  IN IF hits = {} THEN {NullRow} ELSE hits

\* LEFT JOIN ... u ON o.loan_type = u.loan_type AND DATE(u.report_date) =
\* (SELECT MAX(DATE(report_date)) FROM ...unrecovered... WHERE loan_type = o.loan_type)
UnrecoveredMatches(store, x) ==
  LET same == { u \in store[NplUnrecovered] : u.loan_type = x.loan_type }
      hits == { u \in same : \A v \in same : v.report_date <= u.report_date }
  IN IF hits = {} THEN {NullRow} ELSE hits

\* The joined rows the WHERE clause keeps.
NplJoin(store) ==
  UNION { { [o |-> x, r |-> y, u |-> z] :
              y \in RecoveredMatches(store, x), z \in UnrecoveredMatches(store, x) } :
          x \in LatestOutstanding(store) }

\* The SELECT list (server.js 437-453).
NplSelect(j) ==
  [loan_type           |-> j.o.loan_type,
   total_balance       |-> j.o.total_balance,
   within_tenure       |-> j.o.within_tenure,
   arrears_percentage  |->
     Percentage(SqlMinus(j.o.total_balance, j.o.within_tenure), j.o.total_balance),
   report_date         |-> j.o.report_date,
   net_recovered_value |-> Coalesce(j.r.total_balance, 0),
   unrecovered_percentage_net |->
     Coalesce(j.u.total_balance,
              Percentage(j.o.total_balance,
                         SqlPlus(j.o.total_balance, Coalesce(j.r.total_balance, 0))))]

\* Faulty variant of NplRank: ORDER BY o.loan_type, the text order.
NplRankByName(loanType) ==
  CASE loanType = "14 Days Loan" -> 1
    [] loanType = "21 Days Loan" -> 2
    [] loanType = "30 Days Loan" -> 3
    [] loanType = "60 Days Loan" -> 4
    [] loanType = "7 Days Loan"  -> 5
    [] OTHER                     -> 6

\* ORDER BY CASE o.loan_type WHEN ... END (server.js 462-470).
NplRank(loanType) ==
  CASE loanType = "7 Days Loan"  -> 1
    [] loanType = "14 Days Loan" -> 2
    [] loanType = "21 Days Loan" -> 3
    [] loanType = "30 Days Loan" -> 4
    [] loanType = "Grand Total"  -> 5
    [] OTHER                     -> 6

\* Every order in which the store may return the joined rows: rows of one rank
\* come in any order.
NplOrderings(S) ==
  { f \in [1..Cardinality(S) -> S] :
      /\ \A a, b \in 1..Cardinality(S) : a # b => f[a] # f[b]
      /\ \A a, b \in 1..Cardinality(S) :
           a < b => NplRank(f[a].o.loan_type) <= NplRank(f[b].o.loan_type) }

\* The rows of const [rows] = await pool.query(query).
NplQueryResults(store) ==
  { [k \in 1..Len(f) |-> NplSelect(f[k])] : f \in NplOrderings(NplJoin(store)) }

\* parseFloat of a DECIMAL column as the driver hands it over: the number, or
\* NaN for null.
ParseFloatColumn(v) == IF v = NULL THEN NaN ELSE Num(v)

\* Faulty variant of NplField: parseFloat(x) without the `|| 0`.
NplFieldUnguarded(v) == ParseFloatColumn(v)

\* parseFloat(x) || 0
NplField(v) == OrZero(ParseFloatColumn(v))

\* One element of rows.map(...) (server.js 486-504).
NplRecord(row) ==
  [loan_type                  |-> row.loan_type,
   report_date                |-> FormatDate(row.report_date),
   total_balance              |-> NplField(row.total_balance),
   within_tenure              |-> NplField(row.within_tenure),
   net_recovered_value        |-> NplField(row.net_recovered_value),
   unrecovered_percentage_net |-> NplField(row.unrecovered_percentage_net),
   arrears_percentage         |-> NplField(row.arrears_percentage)]

NplPath == <<"npl-data">>

\* GET /api/npl-data up to its await (server.js 430-475).
NplStart(r) ==
  /\ issued' = <<Issue(NplOutstanding, [join |-> <<NplRecovered, NplUnrecovered>>],
                       Num(0), FALSE)>>
  /\ i' = 1
  /\ pc' = "awaiting"
  /\ res' = NoRes

\* The NPL query resolves (server.js 475-509).
NplQueryReturn ==
  \E rows \in NplQueryResults(db) :
    /\ issued' = [issued EXCEPT ![i].state = "ok", ![i].rows = rows]
    /\ res' = [status |-> 200,
               body |-> [npl_data  |-> [k \in 1..Len(rows) |-> NplRecord(rows[k])],
                         timestamp |-> "new Date().toISOString()"]]
    /\ pc' = "responded"
    /\ UNCHANGED <<i, allResults>>

ReceiveFrom(R) ==
  /\ Listening
  /\ pc = "idle"
  /\ \E r \in R :
       /\ RouteOf(r.path) # "none"
       /\ req' = r
       /\ handler' = RouteOf(r.path)
       /\ allResults' = <<>>
       /\ CASE RouteOf(r.path) = "loan-data"           -> LoanDataStart(r)
            [] RouteOf(r.path) = "loan-data/:loanType" -> LoanTypeStart(r)
            [] RouteOf(r.path) = "npl-data"            -> NplStart(r)
            [] OTHER                                   -> SummaryStart(r)
  /\ UNCHANGED <<db, proc>>

Receive == ReceiveFrom(Requests)

\* The rows of the summary SELECT (server.js 384-401): one per (loan_type, telco)
\* group of the window, ordered by loan_type, telco.
SummaryRows(rows, days) ==
  LET inWindow == { r \in rows : r.load_date # NULL /\ r.load_date >= Today - days }
      groups   == { <<r.loan_type, r.telco>> : r \in inWindow }
      members(g) == { r \in inWindow : r.loan_type = g[1] /\ r.telco = g[2] }
      before(g, h) == StrLess(g[1], h[1]) \/ (g[1] = h[1] /\ StrLess(g[2], h[2]))
      order == CHOOSE f \in [1..Cardinality(groups) -> groups] :
                 \A a, b \in 1..Cardinality(groups) : a < b => before(f[a], f[b])
  IN [k \in 1..Cardinality(groups) |->
        [loan_type    |-> order[k][1],
         telco        |-> order[k][2],
         record_count |-> Cardinality(members(order[k])),
         latest_date  |-> FormatDate(SetMax({ r.load_date : r \in members(order[k]) }))]]

\* The loop of the two loan-data handlers from the return of the awaited query
\* to the next await or to res.json (server.js 225-243 and 341-360).
LoanQueryReturn ==
  /\ LimitAccepted(issued[i].limit)
  /\ \E rows \in QueryResults(db[issued[i].table], issued[i].where,
                              issued[i].limit, issued[i].byLoanType) :
       LET merged == allResults \o convertToDashboardFormat(rows)
           done   == [issued EXCEPT ![i].state = "ok", ![i].rows = rows]
       IN IF i < Len(Tables)
          THEN /\ issued' = Append(done, Issue(Tables[i + 1], issued[i].where,
                                               issued[i].limit, issued[i].byLoanType))
               /\ i' = i + 1
               /\ allResults' = merged
               /\ UNCHANGED <<pc, res>>
          ELSE \E sorted \in SortOutcomes(merged) :
               /\ allResults' = sorted
               /\ issued' = done
               /\ res' = [status |-> 200,
                          body |-> IF handler = "loan-data"
                                   THEN LoanDataBody(req, sorted)
                                   ELSE LoanTypeBody(req, sorted)]
               /\ pc' = "responded"
               /\ UNCHANGED i

\* The loop of the summary handler (server.js 403-421).
SummaryQueryReturn ==
  /\ ~issued[i].where.days.nan
  /\ LET merged == allResults \o SummaryRows(db[issued[i].table], issued[i].where.days.n)
         done   == [issued EXCEPT ![i].state = "ok"]
     IN IF i < Len(Tables)
        THEN /\ issued' = Append(done, Issue(Tables[i + 1], issued[i].where, Num(0), FALSE))
             /\ i' = i + 1
             /\ allResults' = merged
             /\ UNCHANGED <<pc, res>>
        ELSE /\ allResults' = merged
             /\ issued' = done
             /\ res' = [status |-> 200, body |-> SummaryBody(req, merged)]
             /\ pc' = "responded"
             /\ UNCHANGED i

\* The awaited pool.query resolves.
QueryReturn ==
  /\ Listening
  /\ pc = "awaiting"
  /\ CASE handler = "loan-data/summary" -> SummaryQueryReturn
       [] handler = "npl-data"          -> NplQueryReturn
       [] OTHER                         -> LoanQueryReturn
  /\ UNCHANGED <<db, req, handler, proc>>

\* Faulty variant of QueryFail: the failure of one table's query is swallowed
\* and the loop goes on with what the other tables gave.
QueryFailSkipsTable ==
  /\ Listening
  /\ pc = "awaiting"
  /\ IF i < Len(Tables)
     THEN /\ issued' = Append([issued EXCEPT ![i].state = "failed"],
                              Issue(Tables[i + 1], issued[i].where, issued[i].limit,
                                    issued[i].byLoanType))
          /\ i' = i + 1
          /\ UNCHANGED <<pc, res, allResults>>
     ELSE /\ issued' = [issued EXCEPT ![i].state = "failed"]
          /\ res' = [status |-> 200, body |-> LoanDataBody(req, allResults)]
          /\ pc' = "responded"
          /\ UNCHANGED <<i, allResults>>
  /\ UNCHANGED <<db, req, handler, proc>>

\* The awaited pool.query rejects (connectivity, a statement the store refuses):
\* the catch block answers (server.js 245-248, 362-365, 423-426).
QueryFail ==
  /\ Listening
  /\ pc = "awaiting"
  /\ issued' = [issued EXCEPT ![i].state = "failed"]
  /\ res' = [status |-> 500,
             body |-> [error   |-> CASE handler = "loan-data/summary" -> "Summary query failed"
                                     [] handler = "npl-data"          -> "NPL query failed"
                                     [] OTHER                         -> "Database query failed",
                       details |-> "error.message"]]
  /\ pc' = "responded"
  /\ UNCHANGED <<db, req, handler, i, allResults, proc>>

\* The response has gone out; the handler's locals are dropped.
Finish ==
  /\ Listening
  /\ pc = "responded"
  /\ pc' = "idle"
  /\ req' = NoReq
  /\ handler' = "none"
  /\ i' = 0
  /\ issued' = <<>>
  /\ allResults' = <<>>
  /\ res' = NoRes
  /\ UNCHANGED <<db, proc>>

Next == Receive \/ QueryReturn \/ QueryFail \/ Finish

Spec == Init /\ [][Next]_vars

(***************************************************************************)
(* Startup and shutdown of the process (server.js 46-55, 665-691).         *)
(***************************************************************************)
handlerVars == <<db, pc, req, handler, i, issued, allResults, res>>

\* startServer() runs up to the await of pool.getConnection() (691, 668, 48).
StartServer ==
  /\ proc.phase = "loaded"
  /\ proc' = [proc EXCEPT !.phase = "connecting"]
  /\ UNCHANGED handlerVars

\* pool.getConnection() resolves: the connection is taken from the pool (48-49).
ConnectOk ==
  /\ proc.phase = "connecting"
  /\ proc' = [proc EXCEPT !.phase = "acquired", !.connected = TRUE, !.held = 1]
  /\ UNCHANGED handlerVars

\* connection.release(); testDatabaseConnection returns (50).
Release ==
  /\ proc.phase = "acquired"
  /\ proc' = [proc EXCEPT !.phase = "connected", !.held = 0, !.released = TRUE]
  /\ UNCHANGED handlerVars

\* Faulty variant of ConnectFail: the catch block logs the error and returns,
\* without process.exit(1).
ConnectFailLogged ==
  /\ proc.phase = "connecting"
  /\ proc' = [proc EXCEPT !.phase = "connected", !.failed = TRUE]
  /\ UNCHANGED handlerVars

\* pool.getConnection() rejects: the catch block calls process.exit(1) (51-54).
ConnectFail ==
  /\ proc.phase = "connecting"
  /\ proc' = [proc EXCEPT !.phase = "exited", !.failed = TRUE, !.exitCode = 1]
  /\ UNCHANGED handlerVars

\* startServer resumes after the await and app.listen binds the port (671).
Listen ==
  /\ proc.phase = "connected"
  /\ proc' = [proc EXCEPT !.phase = "listening", !.listened = TRUE]
  /\ UNCHANGED handlerVars

\* app.listen cannot bind the port: the server's unhandled 'error' event ends
\* the process.
ListenFail ==
  /\ proc.phase = "connected"
  /\ proc' = [proc EXCEPT !.phase = "exited", !.exitCode = 1]
  /\ UNCHANGED handlerVars

\* SIGTERM arrives: the handler starts pool.end() (684-686).
Sigterm ==
  /\ proc.phase # "exited"
  /\ proc.sigterm = "none"
  /\ proc' = [proc EXCEPT !.sigterm = "ending"]
  /\ UNCHANGED handlerVars

\* pool.end() has settled: process.exit(0) (687).
PoolEnded ==
  /\ proc.phase # "exited"
  /\ proc.sigterm = "ending"
  /\ proc' = [proc EXCEPT !.phase = "exited", !.exitCode = 0]
  /\ UNCHANGED handlerVars

StartupStores ==
  { [t \in TableNames |-> IF t = "airtel_loan_data" THEN S ELSE {}] :
      S \in {{}} \cup { {x} : x \in RowUniverse } }

StartupRequests ==
  { Request(LoanDataPath, t, Absent, Absent) : t \in {Absent, cairtel, cVodafone} }
    \cup { Request(LoanTypePath("7"), Absent, Absent, Absent) }

InitStartup == db \in StartupStores /\ Idle /\ proc = Loaded

ReceiveStartup == ReceiveFrom(StartupRequests)

NextStartup ==
  \/ StartServer \/ ConnectOk \/ Release \/ ConnectFail \/ Listen \/ ListenFail
  \/ Sigterm \/ PoolEnded
  \/ ReceiveStartup \/ QueryReturn \/ QueryFail \/ Finish

SpecStartup == InitStartup /\ [][NextStartup]_vars

(***************************************************************************)
(* The converter on rows of every shape: one row in the airtel table, its   *)
(* numeric columns holding numbers, decimal text, other text or NULL.       *)
(***************************************************************************)
cAbc == <<"a","b","c">>

c12 == <<"1","2">>

c12p7 == <<"1","2",".","7">>

cMinus3p5 == <<"-","3",".","5">>

RawValues ==
  {RawNull, Absent, <<>>, cAbc, <<"0">>, c12, c12p7, cMinus3p5, cInfinity, cMinusInfinity}

RecoveredColumns ==
  {"principal_recovered", "sfee_recovered", "late_fees_recovered",
   "setup_fees_recovered", "interest_fees_recovered", "daily_fees_recovered"}

RecoveredValues == {RawNull, cAbc, c12p7, cMinus3p5, cInfinity, cMinusInfinity}

\* The columns that differ from the plain row: the six recovery columns
\* together, the two lending columns together, or any single numeric column.
ColumnVariations ==
  [RecoveredColumns -> RecoveredValues]
    \cup [{"gross_lent", "sfee_lent"} -> RawValues]
    \cup UNION { [{c} -> RawValues] : c \in MetricColumns \cup {"denom"} }

PlainRow ==
  [load_date |-> Today, loan_type |-> Nano7D, denom |-> <<"1","0","0">>,
   processed_at |-> 1, telco |-> cAirtel] @@ RowRest

NormalizeStores ==
  { [t \in TableNames |-> IF t = "airtel_loan_data" THEN {v @@ PlainRow} ELSE {}] :
      v \in ColumnVariations }

NormalizeRequests ==
  { Request(LoanDataPath, cairtel, Absent, Absent),
    Request(LoanTypePath("7"), Absent, Absent, Absent) }

InitNormalize == db \in NormalizeStores /\ Idle /\ proc = Started

ReceiveNormalize == ReceiveFrom(NormalizeRequests)

NextNormalize == ReceiveNormalize \/ QueryReturn \/ QueryFail \/ Finish

SpecNormalize == InitNormalize /\ [][NextNormalize]_vars

(***************************************************************************)
(* The NPL endpoint over every small content of its three tables.          *)
(***************************************************************************)
NplRequests == { Request(NplPath, Absent, Absent, Absent) }

InitNpl == db \in NplStores /\ Idle /\ proc = Started

ReceiveNpl == ReceiveFrom(NplRequests)

NextNpl == ReceiveNpl \/ QueryReturn \/ QueryFail \/ Finish

SpecNpl == InitNpl /\ [][NextNpl]_vars

(***************************************************************************)
(* The latest-snapshot subquery over an airtel table whose rows may carry   *)
(* another operator's name or no processing timestamp.                      *)
(***************************************************************************)
MaxSnapshotRows == 4

SnapshotRows ==
  { key @@ RowRest :
      key \in [load_date : LoadDates \ {NULL}, loan_type : LoanTypeColumn,
               denom : DenomColumn, processed_at : ProcessedAts \cup {NULL},
               telco : TelcoColumn] }

SnapshotStores ==
  { [t \in TableNames |-> IF t = "airtel_loan_data" THEN S ELSE {}] :
      S \in SubsetsUpTo(SnapshotRows, MaxSnapshotRows) }

SnapshotRequests ==
  { Request(LoanDataPath, cairtel, <<"9">>, Absent),
    Request(LoanDataPath, cairtel, Absent, Absent),
    Request(LoanTypePath("7"), Absent, <<"9">>, Absent) }

InitSnapshot == db \in SnapshotStores /\ Idle /\ proc = Started

ReceiveSnapshot == ReceiveFrom(SnapshotRequests)

NextSnapshot == ReceiveSnapshot \/ QueryReturn \/ QueryFail \/ Finish

SpecSnapshot == InitSnapshot /\ [][NextSnapshot]_vars

TypeOK ==
  /\ pc \in {"idle", "awaiting", "responded"}
  /\ handler \in {"none", "loan-data", "loan-data/:loanType", "loan-data/summary",
                  "npl-data"}
  /\ i \in 0..2
  /\ Len(issued) = i
  /\ res.status \in {0, 200, 400, 500}
  /\ proc.phase \in {"loaded", "connecting", "acquired", "connected", "listening", "exited"}
  /\ proc.held \in {0, 1}
  /\ proc.sigterm \in {"none", "ending"}
  /\ proc.exitCode \in {NULL, 0, 1}

(***************************************************************************)
(* Properties                                                              *)
(***************************************************************************)
IsLoanHandler == handler \in {"loan-data", "loan-data/:loanType"}

\* The telco the handler works with: the parameter, or 'both' when not sent.
EffectiveTelco == OrDefault(req.telco, DefaultTelco)

KnownTelco(telco) == ToLowerCase(telco) \in {cairtel, cmtn, cboth}

IssuedTables == [k \in 1..Len(issued) |-> issued[k].table]

IsPrefix(a, b) == Len(a) <= Len(b) /\ \A k \in 1..Len(a) : a[k] = b[k]

Range(f) == { f[k] : k \in DOMAIN f }

\* C1: on GET /loan-data, a telco whose lower-cased form is none of 'airtel',
\* 'mtn', 'both' gets no database query and the answer HTTP 400.
C1_InvalidTelcoRejected ==
  (pc # "idle" /\ handler = "loan-data" /\ ~KnownTelco(EffectiveTelco))
    => (pc = "responded" /\ res.status = 400 /\ issued = <<>>)

C1_Witness ==
  /\ pc = "responded"
  /\ handler = "loan-data"
  /\ req.telco = cVodafone
  /\ res.status = 400
  /\ issued = <<>>

\* C2: on GET /loan-data/{loanType} with a valid loanType, a telco whose
\* lower-cased form is none of 'airtel', 'mtn', 'both' gets no query and a client
\* error, not a successful empty result.
C2_InvalidTelcoRejectedByType ==
  (/\ pc # "idle"
   /\ handler = "loan-data/:loanType"
   /\ req.path[2] \in {"7", "14", "21", "30"}
   /\ ~KnownTelco(EffectiveTelco))
    => (pc = "responded" /\ res.status = 400 /\ issued = <<>>)

\* C3: a GET of /loan-data/summary is handled by the summary operation and
\* answered with { summary, filters }; the /loan-data/{loanType} route never
\* captures it and never rejects it as an invalid loan type.
C3_SummaryRouted ==
  (pc # "idle" /\ req.path = <<"loan-data", "summary">>)
    => /\ handler = "loan-data/summary"
       /\ res.status # 400
       /\ res.status = 200 => "summary" \in DOMAIN res.body

\* C4: on GET /loan-data/{loanType} the segments '7', '14', '21', '30' map to
\* 'Nano 7D', 'Nano 14D', 'Nano 21D', 'Nano 30D', and every other segment gets
\* HTTP 400 and no query.
C4_LoanTypeMapping ==
  (pc # "idle" /\ handler = "loan-data/:loanType")
    => /\ req.path[2] = "7"  => \A k \in 1..Len(issued) : issued[k].where.like = Nano7D
       /\ req.path[2] = "14" => \A k \in 1..Len(issued) : issued[k].where.like = Nano14D
       /\ req.path[2] = "21" => \A k \in 1..Len(issued) : issued[k].where.like = Nano21D
       /\ req.path[2] = "30" => \A k \in 1..Len(issued) : issued[k].where.like = Nano30D
       /\ req.path[2] \notin {"7", "14", "21", "30"}
            => (pc = "responded" /\ res.status = 400 /\ issued = <<>>)

\* x and r carry the same (load_date, loan_type, denom).
ShareKey(x, r) ==
  x.load_date = r.load_date /\ x.loan_type = r.loan_type /\ x.denom = r.denom

\* C5: the result of a table's query holds, for a key, only rows with the
\* greatest processing timestamp that key has in that same table; a row that
\* passes the request's filters and has that greatest timestamp is returned
\* (the limit permitting) whatever the other table holds.
C5_LatestSnapshotPerTable ==
  IsLoanHandler =>
    \A k \in 1..Len(issued) :
      issued[k].state = "ok" =>
        LET q == issued[k]
            T == db[q.table]
        IN /\ \A r \in Range(q.rows) :
                /\ r \in T
                /\ \A x \in T : ShareKey(x, r) => x.processed_at <= r.processed_at
           /\ \A r \in T :
                (/\ WherePredicate(q.where, r)
                 /\ \A x \in T : ShareKey(x, r) => x.processed_at <= r.processed_at
                 /\ Len(q.rows) < q.limit.n)
                  => r \in Range(q.rows)

C5_Witness ==
  /\ IsLoanHandler
  /\ Len(issued) >= 1
  /\ issued[1].state = "ok"
  /\ Len(issued[1].rows) = 1
  /\ \E x \in db[issued[1].table] :
       /\ ShareKey(x, issued[1].rows[1])
       /\ x.telco = issued[1].rows[1].telco
       /\ x.processed_at < issued[1].rows[1].processed_at

\* C6: when two rows of one table share (load_date, loan_type, denom) and both
\* carry the greatest processing timestamp of that key, exactly one of the two
\* is in the result.
C6_TieKeepsOne ==
  IsLoanHandler =>
    \A k \in 1..Len(issued) :
      issued[k].state = "ok" =>
        LET q == issued[k]
            T == db[q.table]
        IN \A x, y \in T :
             (/\ x # y
              /\ ShareKey(x, y)
              /\ x.processed_at = y.processed_at
              /\ \A z \in T : ShareKey(z, x) => z.processed_at <= x.processed_at
              /\ WherePredicate(q.where, x)
              /\ WherePredicate(q.where, y)
              /\ Len(q.rows) < q.limit.n)
               => Cardinality({x, y} \cap Range(q.rows)) = 1

\* C7: when the query against one of the selected tables fails, the request
\* fails with HTTP 500 carrying the driver message and returns no rows of the
\* tables queried before; a successful response comes only after every selected
\* table's query succeeded.
C7_FailureFailsRequest ==
  IsLoanHandler =>
    /\ (\E k \in 1..Len(issued) : issued[k].state = "failed")
         => /\ pc = "responded"
            /\ res.status = 500
            /\ "details" \in DOMAIN res.body
            /\ "data" \notin DOMAIN res.body
    /\ res.status = 200
         => /\ Len(issued) = Len(Tables)
            /\ \A k \in 1..Len(Tables) :
                 issued[k].table = Tables[k] /\ issued[k].state = "ok"

C7_Witness ==
  /\ IsLoanHandler
  /\ pc = "responded"
  /\ res.status = 500
  /\ Len(issued) = 2
  /\ issued[1].state = "ok"
  /\ issued[1].rows # <<>>
  /\ issued[2].state = "failed"

\* C8: 'airtel' selects exactly the airtel table, 'mtn' exactly the MTN table,
\* 'both' (and an absent telco) both tables in the order airtel, MTN, whatever
\* the letter case of the input.
C8_TableSelection ==
  (/\ pc # "idle"
   /\ IsLoanHandler
   /\ handler = "loan-data/:loanType" => req.path[2] \in {"7", "14", "21", "30"})
    => LET expected ==
             IF req.telco \in {cairtel, cAirtel, <<"A","I","R","T","E","L">>}
             THEN <<"airtel_loan_data">>
             ELSE IF req.telco \in {cmtn, cMTN}
             THEN <<"MTN_loan_data">>
             ELSE IF req.telco \in {Absent, cboth, <<"B","o","t","h">>}
             THEN <<"airtel_loan_data", "MTN_loan_data">>
             ELSE <<>>
       IN expected # <<>> =>
            /\ issued # <<>>
            /\ IsPrefix(IssuedTables, expected)
            /\ res.status # 400
            /\ res.status = 200 => IssuedTables = expected

C8_Witness ==
  /\ pc = "responded"
  /\ IsLoanHandler
  /\ req.telco = <<"A","I","R","T","E","L">>
  /\ res.status = 200
  /\ IssuedTables = <<"airtel_loan_data">>
  /\ res.body.data # <<>>

\* C9: for telco 'both' the limit bounds each table's query on its own: each
\* query returns the smaller of the limit and the number of rows it selects,
\* the response holds the two results together and count is their sum; the
\* limit defaults to 1000 on /loan-data and to 500 on /loan-data/{loanType}.
C9_LimitPerTable ==
  (/\ pc = "responded"
   /\ IsLoanHandler
   /\ res.status = 200
   /\ req.telco \in {Absent, cboth, <<"B","o","t","h">>})
    => /\ Len(issued) = 2
       /\ \A k \in 1..2 :
            /\ Len(issued[k].rows) =
                 Min(issued[k].limit.n,
                     Cardinality(SelectedRows(db[issued[k].table], issued[k].where)))
            /\ req.limit = Absent =>
                 issued[k].limit = Num(IF handler = "loan-data" THEN 1000 ELSE 500)
            /\ req.limit = <<"1">> => issued[k].limit = Num(1)
       /\ res.body.count = Len(issued[1].rows) + Len(issued[2].rows)
       /\ Len(res.body.data) = res.body.count

C9_Witness ==
  /\ pc = "responded"
  /\ IsLoanHandler
  /\ res.status = 200
  /\ req.telco = Absent
  /\ req.limit = <<"1">>
  /\ Len(issued[1].rows) = 1
  /\ Len(issued[2].rows) = 1
  /\ res.body.count = 2

\* a and b are 'YYYY-MM-DD' strings and a is the same day as b or a later one.
DateNotBefore(a, b) ==
  /\ IsDateString(a)
  /\ IsDateString(b)
  /\ DayNumber(a) >= DayNumber(b)

\* C10: in every successful /loan-data and /loan-data/{loanType} response the
\* data sequence is ordered by date descending: of two adjacent records the
\* first one's date is the same as or later than the second one's, whatever the
\* tables hold (rows with a null load_date included).
C10_SortedByDateDescending ==
  (pc = "responded" /\ IsLoanHandler /\ res.status = 200)
    => \A k \in 1..(Len(res.body.data) - 1) :
         DateNotBefore(res.body.data[k].date, res.body.data[k + 1].date)

C10_Witness ==
  /\ pc = "responded"
  /\ IsLoanHandler
  /\ res.status = 200
  /\ Len(issued) = 2
  /\ Len(issued[1].rows) = 1
  /\ Len(issued[2].rows) = 1
  /\ issued[1].rows[1].load_date < issued[2].rows[1].load_date
  /\ res.body.data[1].date = FormatDate(issued[2].rows[1].load_date)

\* The numeric fields of a normalized record.
NumericFields ==
  {"denom", "qualified_base", "overall_actives_daily", "overall_actives_wtd",
   "overall_actives_mtd", "overall_actives_ytd", "lending_transactions",
   "lending_txns", "gross_lent", "principal_lent", "service_fee_lent", "sfee_lent",
   "late_fees_charged", "setup_fees_charged", "interest_fees_charged",
   "daily_fees_charged", "recovery_transactions", "recovery_txns",
   "principal_recovered", "service_fee_recovered", "sfee_recovered",
   "late_fees_recovered", "setup_fees_recovered", "interest_fees_recovered",
   "daily_fees_recovered", "gross_recovered", "unique_users",
   "overall_unique_users", "fx_rate"}

\* The column a copied (not derived) numeric field is read from.
SourceColumn ==
  [f \in NumericFields \ {"principal_lent", "gross_recovered", "fx_rate"} |->
     CASE f = "lending_transactions"  -> "lending_txns"
       [] f = "recovery_transactions" -> "recovery_txns"
       [] f = "service_fee_lent"      -> "sfee_lent"
       [] f = "service_fee_recovered" -> "sfee_recovered"
       [] f = "unique_users"          -> "overall_actives_daily"
       [] f = "overall_unique_users"  -> "overall_actives_ytd"
       [] OTHER                       -> f]

\* The fields the claims call counts.
CountFields ==
  {"denom", "qualified_base", "overall_actives_daily", "overall_actives_mtd",
   "overall_actives_ytd", "lending_txns", "recovery_txns"}

\* A successful answer of a loan-data handler is out.
Answered == pc = "responded" /\ IsLoanHandler /\ res.status = 200

\* The one stored row of the converter's specification.
StoredRow == CHOOSE r \in db["airtel_loan_data"] : TRUE

C12_PrincipalLentUnclamped ==
  Answered =>
    \A k \in DOMAIN res.body.data :
      LET d == res.body.data[k]
      IN /\ d.principal_lent = Minus(d.gross_lent, d.sfee_lent)
         /\ (d.gross_lent.inf = 0 /\ d.sfee_lent.inf = 0) =>
              d.principal_lent = Num(d.gross_lent.n - d.sfee_lent.n)

C12_Witness ==
  /\ Answered
  /\ Len(res.body.data) = 1
  /\ StoredRow.gross_lent = c12
  /\ StoredRow.sfee_lent = c12p7
  /\ res.body.data[1].principal_lent = Num(0 - 70)

\* C13: every numeric field of a normalized record is present and a number,
\* and is 0 where the source value is null, empty or other text; no row makes
\* the converter fail or give NaN.
C13_NumericFieldsAreNumbers ==
  /\ Answered =>
       \A k \in DOMAIN res.body.data :
         LET d == res.body.data[k]
         IN /\ NumericFields \subseteq DOMAIN d
            /\ \A f \in NumericFields : ~d[f].nan
            /\ \A f \in DOMAIN SourceColumn :
                 StoredRow[SourceColumn[f]] \in {RawNull, Absent, <<>>, cAbc}
                   => d[f] = Num(0)
  /\ (pc = "responded" /\ IsLoanHandler /\ res.status = 500)
       => \E k \in DOMAIN issued : issued[k].state = "failed"

\* C18: denom, qualified_base, overall_actives_daily, overall_actives_mtd,
\* overall_actives_ytd, lending_txns and recovery_txns are converted with integer
\* parsing ('12.7' gives 12); overall_actives_wtd and the monetary fields with
\* fractional parsing ('12.7' gives 12.7).
C18_CountsAreIntegers ==
  Answered =>
    \A k \in DOMAIN res.body.data :
      LET d == res.body.data[k]
      IN \A f \in DOMAIN SourceColumn :
           /\ f \in CountFields => (d[f].inf = 0 /\ d[f].n % 100 = 0)
           /\ StoredRow[SourceColumn[f]] = c12p7 =>
                d[f].n = IF f \in CountFields THEN 1200 ELSE 1270

\* C14: the lookback window bound to a query is a positive integer: 7 by
\* default on the loan-data handlers and 30 on the summary, and a days value
\* that is non-numeric, zero or negative never reaches the query as it is
\* (non-numeric input gives the default).
C14_WindowPositive ==
  \A k \in DOMAIN issued :
    IF handler = "loan-data/summary"
      THEN /\ ~issued[k].where.days.nan
           /\ issued[k].where.days.n > 0
           /\ req.days = Absent => issued[k].where.days.n = 30
      ELSE ~issued[k].where.between =>
             /\ issued[k].where.daysInt > 0
             /\ ParseInt(req.days).nan => issued[k].where.daysInt = 7

\* C19: a loan-data request over both operators issues its table queries one
\* after another, airtel then MTN: a query is issued only when every earlier one
\* of the request has returned successfully, and after a failed query none is
\* issued.
C19_AirtelThenMtn ==
  IsLoanHandler =>
    /\ \A k \in DOMAIN issued : k < Len(issued) => issued[k].state = "ok"
    /\ \A k \in DOMAIN issued :
         issued[k].state = "failed" => (k = Len(issued) /\ pc = "responded")
    /\ Len(issued) = 2 =>
         /\ issued[1].table = "airtel_loan_data"
         /\ issued[2].table = "MTN_loan_data"
    /\ (ToLowerCase(EffectiveTelco) = cboth /\ Len(issued) = 1) => issued[1].table = "airtel_loan_data"

C19_Witness ==
  /\ IsLoanHandler
  /\ EffectiveTelco = cboth
  /\ Len(issued) = 2
  /\ issued[1].state = "ok"
  /\ Len(issued[1].rows) > 0
  /\ issued[2].state = "pending"

\* A successful answer of the NPL handler is out.
NplAnswered == pc = "responded" /\ handler = "npl-data" /\ res.status = 200

\* C15: the NPL response lists its rows in the category order '7 Days Loan',
\* '14 Days Loan', '21 Days Loan', '30 Days Loan', 'Grand Total', then any other
\* loan type, whatever the stored order: no row follows a row of a later
\* category.
C15_NplCategoryOrder ==
  NplAnswered =>
    LET data == res.body.npl_data
        pos(t) == CASE t = "7 Days Loan"  -> 1
                    [] t = "14 Days Loan" -> 2
                    [] t = "21 Days Loan" -> 3
                    [] t = "30 Days Loan" -> 4
                    [] t = "Grand Total"  -> 5
                    [] OTHER              -> 6
    IN \A a, b \in DOMAIN data : a < b => pos(data[a].loan_type) <= pos(data[b].loan_type)

C15_Witness ==
  /\ NplAnswered
  /\ Len(res.body.npl_data) = 3
  /\ res.body.npl_data[1].loan_type = "7 Days Loan"
  /\ res.body.npl_data[2].loan_type = "14 Days Loan"
  /\ res.body.npl_data[3].loan_type = "60 Days Loan"

\* C16: an outstanding row whose total_balance is 0 does not make the NPL
\* request fail: the query has a result, and in the answer that row's
\* arrears_percentage, and its unrecovered_percentage_net when it comes from the
\* fallback ratio, are the number 0.
C16_ZeroBalanceDefined ==
  /\ (handler = "npl-data" /\ pc = "awaiting") => NplQueryResults(db) # {}
  /\ (handler = "npl-data" /\ pc = "responded" /\ res.status = 500)
       => issued[1].state = "failed"
  /\ NplAnswered =>
       \A k \in DOMAIN res.body.npl_data :
         LET raw == issued[1].rows[k]
             rec == res.body.npl_data[k]
         IN raw.total_balance = 0 =>
              /\ rec.arrears_percentage = Num(0)
              /\ ~rec.unrecovered_percentage_net.nan
              /\ rec.unrecovered_percentage_net.inf = 0
              /\ (\A u \in db[NplUnrecovered] : u.loan_type # raw.loan_type)
                   => rec.unrecovered_percentage_net = Num(0)

C16_Witness ==
  /\ NplAnswered
  /\ \E k \in DOMAIN res.body.npl_data :
       /\ issued[1].rows[k].total_balance = 0
       /\ issued[1].rows[k].arrears_percentage = NULL
       /\ issued[1].rows[k].unrecovered_percentage_net = NULL
       /\ res.body.npl_data[k].arrears_percentage = Num(0)
       /\ res.body.npl_data[k].unrecovered_percentage_net = Num(0)

\* C17: the NPL response holds exactly one record for each outstanding-balance
\* row of the latest report_date, whatever the recovered-value and
\* unrecovered-percentage tables hold: the joins neither drop nor duplicate
\* outstanding rows, and no row of an earlier report_date appears.
C17_OneRecordPerOutstandingRow ==
  NplAnswered =>
    LET data == res.body.npl_data
        Of(x) == { k \in DOMAIN data :
                     /\ data[k].loan_type = x.loan_type
                     /\ data[k].total_balance = Num(x.total_balance)
                     /\ data[k].report_date = FormatDate(x.report_date) }
    IN /\ \A x \in LatestOutstanding(db) : Cardinality(Of(x)) = 1
       /\ \A k \in DOMAIN data : \E x \in LatestOutstanding(db) : k \in Of(x)

\* x carries the greatest processing timestamp among the stamped rows of its
\* key in table T.
TopOfKey(T, x) ==
  /\ x.processed_at # NULL
  /\ \A y \in T : (SameKey(y, x) /\ y.processed_at # NULL) => y.processed_at <= x.processed_at

\* z was processed strictly later than every other stamped row of its key in T.
StrictlyLatest(T, z) ==
  /\ z.processed_at # NULL
  /\ \A y \in T : (SameKey(y, z) /\ y # z /\ y.processed_at # NULL)
                    => y.processed_at < z.processed_at

\* C20: the latest-snapshot maximum is taken over all rows of the table with
\* the same (load_date, loan_type, denom), whatever the request's predicates;
\* so a key whose most recently processed row fails the operator-name
\* predicate, or has a null processing timestamp, contributes no row, though an
\* older row of the key satisfies every predicate.
C20_LatestRowHidesKey ==
  IsLoanHandler =>
    \A k \in DOMAIN issued :
      issued[k].state = "ok" =>
        LET T   == db[issued[k].table]
            w   == issued[k].where
            out == Range(issued[k].rows)
        IN /\ \A x \in out : TopOfKey(T, x)
           /\ \A z \in T :
                ( \/ StrictlyLatest(T, z) /\ ~TelcoPredicate(w, z)
                  \/ z.processed_at = NULL )
                => \A x \in out : ~SameKey(x, z)

\* C20, amended: the maximum is taken over all stamped rows of the key in the
\* table, whatever the request's predicates, so a key whose most recently
\* processed row fails the operator-name predicate contributes no row; a row
\* with a null processing timestamp is never returned and is ignored by the
\* maximum, so it hides no stamped row of its key.
C20_MaxOverWholeKey ==
  IsLoanHandler =>
    \A k \in DOMAIN issued :
      issued[k].state = "ok" =>
        LET T   == db[issued[k].table]
            w   == issued[k].where
            out == Range(issued[k].rows)
        IN /\ \A x \in out : x \in T /\ WherePredicate(w, x) /\ TopOfKey(T, x)
           /\ \A z \in T :
                (StrictlyLatest(T, z) /\ ~TelcoPredicate(w, z))
                  => \A x \in out : ~SameKey(x, z)
           /\ Len(issued[k].rows) < issued[k].limit.n =>
                \A x \in T : (WherePredicate(w, x) /\ TopOfKey(T, x)) => x \in out

C20_Witness ==
  /\ IsLoanHandler
  /\ Len(issued) = 1
  /\ issued[1].state = "ok"
  /\ issued[1].where.telcoFilter = "airtel"
  /\ LET T   == db[issued[1].table]
         w   == issued[1].where
         out == Range(issued[1].rows)
     IN /\ \E z, y \in T :
             /\ SameKey(z, y)
             /\ StrictlyLatest(T, z) /\ ~TelcoPredicate(w, z)
             /\ WherePredicate(w, y)
             /\ \A x \in out : ~SameKey(x, z)
        /\ \E n, y \in T :
             /\ SameKey(n, y)
             /\ n.processed_at = NULL /\ WherePredicate(w, n)
             /\ y \in out

\* C21: the server listens only after a connection was obtained from the pool
\* and released back to it; when obtaining the connection fails the process
\* exits with status 1 and never listens, so no request is handled before a
\* successful connection to the store.
C21_ListenAfterConnection ==
  /\ proc.listened => (proc.connected /\ proc.released /\ proc.held = 0 /\ ~proc.failed)
  /\ Listening => proc.listened
  /\ proc.failed => (proc.phase = "exited" /\ proc.exitCode = 1 /\ ~proc.listened)
  /\ (req # NoReq \/ pc # "idle") => (proc.listened /\ proc.connected /\ proc.released)

C21_Witness ==
  /\ Listening
  /\ proc.connected /\ proc.released
  /\ pc = "responded"
  /\ res.status = 200
  /\ Len(res.body.data) = 1

====
